---- MODULE Spec2Model ----
(***************************************************************************)
(* Model of idaes/core/util/data.py: unit_convert (the unit normaliser)    *)
(* and read_data (the tagged CSV loader).                                  *)
(*                                                                         *)
(* Strings are TLA+ strings, read character by character with Len/SubSeq.  *)
(* Magnitudes are fixed-point integers in hundredths (1000 is 10.00).      *)
(* Python's None is the value None below.                                  *)
(***************************************************************************)
EXTENDS Integers, Sequences, FiniteSets, TLC

VARIABLES uc, pc, inp, df, metadata, order, iter, idx, warns, error

vars == <<uc, pc, inp, df, metadata, order, iter, idx, warns, error>>

None == "<None>"

\* Fixed-point image of the number n: n.00 in hundredths.
Fix(n) == n * 100

(***************************************************************************)
(* Bounds of the model.                                                    *)
(***************************************************************************)
\* Most data columns in one data file.
MaxCols == 3
\* Most lines in one metadata file.
MaxRows == 2

(***************************************************************************)
(* Module-level tables of data.py.                                         *)
(***************************************************************************)
unit_strings ==
    "PSI" :> "psi" @@ "PSIA" :> "psi" @@ "psia" :> "psi" @@
    "PSIG" :> "psig" @@ "INWC" :> "in water" @@ "IN WC" :> "in water" @@
    "IN/WC" :> "in water" @@ "\" H2O" :> "in water" @@ "INHG" :> "in hg" @@
    "IN HG" :> "in hg" @@ "IN/HG" :> "in hg" @@ "HGA" :> "in hg" @@
    "IN HGA" :> "in hg" @@ "PCT" :> "percent" @@ "pct" :> "percent" @@
    "PERCT" :> "percent" @@ "PERCT." :> "percent" @@ "PCNT" :> "percent" @@
    "PPM" :> "ppm" @@ "PPB" :> "ppb" @@ "% OPEN" :> "percent open" @@
    "% CLSD" :> "percent closed" @@ "% CLOSED" :> "percent closed" @@
    "IN" :> "in" @@ "INS" :> "in" @@ "INCHES" :> "in" @@ "Inches" :> "in" @@
    "FT" :> "ft" @@ "FEET" :> "ft" @@ "FOOT" :> "ft" @@ "Feet" :> "ft" @@
    "MILS" :> "minch" @@ "MPH" :> "mile/hr" @@ "IPS" :> "in/s" @@
    "KGAL" :> "kgal" @@ "GPM" :> "gal/min" @@ "gpm" :> "gal/min" @@
    "CFM" :> "ft^3/min" @@ "KCFM" :> "ft^3/mmin" @@ "SCFM" :> "ft^3/min" @@
    "KSCFM" :> "ft^3/mmin" @@ "DEG" :> "deg" @@ "RPM" :> "rpm" @@
    "HZ" :> "hz" @@ "DEG F" :> "degF" @@ "Deg F" :> "degF" @@
    "deg F" :> "degF" @@ "DEG C" :> "degC" @@ "Deg C" :> "degC" @@
    "deg C" :> "degC" @@ "DEGF" :> "degF" @@ "DegF" :> "degF" @@
    "DEGC" :> "degC" @@ "DegC" :> "degC" @@ "DELTA DEG F" :> "delta_degF" @@
    "DETLA Deg F" :> "delta_degF" @@ "DETLA deg F" :> "delta_degF" @@
    "DETLA DEG C" :> "delta_degC" @@ "DETLA Deg C" :> "delta_degC" @@
    "DELTA deg C" :> "delta_degC" @@ "DELTA DEGF" :> "delta_degF" @@
    "DELTA DegF" :> "delta_degF" @@ "DELTA degF" :> "delta_degF" @@
    "DELTA DEGC" :> "delta_degC" @@ "DELTA DegC" :> "delta_degC" @@
    "DELTA degC" :> "delta_degC" @@ "Delta DEG F" :> "delta_degF" @@
    "Delta Deg F" :> "delta_degF" @@ "Delta deg F" :> "delta_degF" @@
    "Delta DEG C" :> "delta_degC" @@ "Delta Deg C" :> "delta_degC" @@
    "Delta deg C" :> "delta_degC" @@ "Delta DEGF" :> "delta_degF" @@
    "Delta DegF" :> "delta_degF" @@ "Delta degF" :> "delta_degF" @@
    "Delta DEGC" :> "delta_degC" @@ "Delta DegC" :> "delta_degC" @@
    "Delta degC" :> "delta_degC" @@ "delta DEG F" :> "delta_degF" @@
    "delta Deg F" :> "delta_degF" @@ "delta deg F" :> "delta_degF" @@
    "delta DEG C" :> "delta_degC" @@ "delta Deg C" :> "delta_degC" @@
    "delta deg C" :> "delta_degC" @@ "delta DEGF" :> "delta_degF" @@
    "delta DegF" :> "delta_degF" @@ "delta degF" :> "delta_degF" @@
    "delta DEGC" :> "delta_degC" @@ "delta DegC" :> "delta_degC" @@
    "delta degC" :> "delta_degC" @@ "MBTU" :> "kbtu" @@ "MLB" :> "klb" @@
    "K LB" :> "klb" @@ "K LBS" :> "klb" @@ "lb." :> "lb" @@
    "TPH" :> "ton/hr" @@ "tph" :> "ton/hr" @@ "KLB/HR" :> "klb/hr" @@
    "KPPH" :> "klb/hr" @@ "AMP" :> "amp" @@ "AMPS" :> "amp" @@
    "Amps" :> "amp" @@ "Amp" :> "amp" @@ "AMP AC" :> "amp" @@ "PH" :> "pH" @@
    "VARS" :> "VAR" @@ "MVARS" :> "MVAR"

builtin_guage_pressures == "psig" :> "psi"

builtin_ignore_units ==
    {"percent", "ppm", "ppb", "pH", "VAR", "MVAR", "H2O", "percent open",
     "percent closed"}

\* Default of the parameter atm of unit_convert: 1.0 atmosphere.
AtmDefault == Fix(1)

(***************************************************************************)
(* The units library (pint) as far as unit_convert uses it: the unit       *)
(* strings it parses, with their dimension, their size in tenths of a      *)
(* pascal (pressure) or in centimetres (length), and the name it prints.   *)
(* Every other string is an undefined unit.                                *)
(***************************************************************************)
PintRegistry ==
    "psi" :> [dim |-> "pressure", size |-> 68948, name |-> "pound_force_per_square_inch"] @@
    "pound_force_per_square_inch" :> [dim |-> "pressure", size |-> 68948, name |-> "pound_force_per_square_inch"] @@
    "atm" :> [dim |-> "pressure", size |-> 1013250, name |-> "standard_atmosphere"] @@
    "standard_atmosphere" :> [dim |-> "pressure", size |-> 1013250, name |-> "standard_atmosphere"] @@
    "bar" :> [dim |-> "pressure", size |-> 1000000, name |-> "bar"] @@
    "Pa" :> [dim |-> "pressure", size |-> 10, name |-> "pascal"] @@
    "pascal" :> [dim |-> "pressure", size |-> 10, name |-> "pascal"] @@
    "kilogram / meter / second ** 2" :> [dim |-> "pressure", size |-> 10, name |-> "kilogram / meter / second ** 2"] @@
    "gram / centimeter / second ** 2" :> [dim |-> "pressure", size |-> 1, name |-> "gram / centimeter / second ** 2"] @@
    "m" :> [dim |-> "length", size |-> 100, name |-> "meter"] @@
    "meter" :> [dim |-> "length", size |-> 100, name |-> "meter"] @@
    "cm" :> [dim |-> "length", size |-> 1, name |-> "centimeter"] @@
    "centimeter" :> [dim |-> "length", size |-> 1, name |-> "centimeter"]

\* ureg.parse_expression(u) succeeds; otherwise it raises UndefinedUnitError.
PintDefined(u) == u \in DOMAIN PintRegistry

\* The base unit of a dimension in a unit system (None is pint's default, mks).
PintBaseUnit(dim, system) ==
    IF system = "cgs"
    THEN (IF dim = "pressure" THEN "gram / centimeter / second ** 2" ELSE "centimeter")
    ELSE (IF dim = "pressure" THEN "kilogram / meter / second ** 2" ELSE "meter")

\* The magnitude of q(x, frm) expressed in the unit target.
PintMagnitude(x, frm, target) ==
    (x * PintRegistry[frm].size) \div PintRegistry[target].size

\* q(x, frm).to_base_units() when to is None, q(x, frm).to(to) otherwise: the
\* converted quantity, or the exception pint raises.
PintConvert(x, frm, to, system) ==
    LET target == IF to = None THEN PintBaseUnit(PintRegistry[frm].dim, system) ELSE to
    IN  IF ~PintDefined(target)
        THEN [exc |-> "UndefinedUnitError", magnitude |-> x, units |-> frm]
        ELSE IF PintRegistry[target].dim # PintRegistry[frm].dim
        THEN [exc |-> "DimensionalityError", magnitude |-> x, units |-> frm]
        ELSE [exc |-> None, magnitude |-> PintMagnitude(x, frm, target),
              units |-> target]

\* y + atm*ureg.parse_expression("atm"): the offset is expressed in y's units.
PintAddAtm(y, atm) ==
    IF PintRegistry[y.units].dim # "pressure"
    THEN [exc |-> "DimensionalityError", magnitude |-> y.magnitude, units |-> y.units]
    ELSE [exc |-> None,
          magnitude |-> y.magnitude + PintMagnitude(atm, "atm", y.units),
          units |-> y.units]

(***************************************************************************)
(* unit_convert, statement by statement.                                   *)
(***************************************************************************)
\* ResolveFrm with the alias table consulted before the caller's mapping.
ResolveFrmAliasFirst(frm, unit_string_map) ==
    IF frm \in DOMAIN unit_strings THEN unit_strings[frm]
    ELSE IF frm \in DOMAIN unit_string_map THEN unit_string_map[frm]
    ELSE frm

\* Lines 165-168: the override mapping first, then the alias table, once.
ResolveFrm(frm, unit_string_map) ==
    IF frm \in DOMAIN unit_string_map THEN unit_string_map[frm]
    ELSE IF frm \in DOMAIN unit_strings THEN unit_strings[frm]
    ELSE frm

\* Lines 170-176: the gauge flag and the absolute-pressure unit.
GuageCheck(frm, guage_pressures) ==
    IF frm \in DOMAIN guage_pressures
    THEN [guage |-> TRUE, frm |-> guage_pressures[frm]]
    ELSE IF frm \in DOMAIN builtin_guage_pressures
    THEN [guage |-> TRUE, frm |-> builtin_guage_pressures[frm]]
    ELSE [guage |-> FALSE, frm |-> frm]

\* IsIgnored without the caller's ignore_units.
IsIgnoredBuiltinOnly(frm, ignore_units) == frm \in builtin_ignore_units

\* Line 178: the pass-through test.
IsIgnored(frm, ignore_units) ==
    (frm \in builtin_ignore_units) \/ (frm \in ignore_units)

\* ConvertQuantity with the offset added to x, in the source unit, before
\* the conversion.
ConvertQuantityOffsetFirst(x, frm, to, system, guage, atm) ==
    IF guage THEN PintConvert(x + atm, frm, to, system)
    ELSE PintConvert(x, frm, to, system)

\* Lines 187-193: the conversion and, for a gauge pressure, the offset.
ConvertQuantity(x, frm, to, system, guage, atm) ==
    LET y == PintConvert(x, frm, to, system)
    IN  IF y.exc # None THEN y
        ELSE IF guage THEN PintAddAtm(y, atm)
        ELSE y

\* Line 179: return (x, frm) for a pass-through unit.
IgnoredReturn(x, frm) ==
    [path |-> "ignored", value |-> x, units |-> frm, warned |-> FALSE,
     exc |-> None]

\* UndefinedReturn with the exception not caught.
UndefinedReturnUncaught(x, frm) ==
    [path |-> "undefined", value |-> x, units |-> frm, warned |-> FALSE,
     exc |-> "UndefinedUnitError"]

\* Lines 183-186: UndefinedUnitError is caught, a warning is emitted and
\* (x, frm) is returned.
UndefinedReturn(x, frm) ==
    [path |-> "undefined", value |-> x, units |-> frm, warned |-> TRUE,
     exc |-> None]

\* Line 194: return (y.magnitude, str(y.units)), unless an exception escaped.
ConvertedReturn(y) ==
    [path |-> "converted", value |-> y.magnitude,
     units |-> PintRegistry[y.units].name, warned |-> FALSE, exc |-> y.exc]

\* The whole call: what is returned (value, units), whether a warning was
\* emitted, the exception that escaped (None when the call returns), and the
\* locals the statements above leave behind.
unit_convert(x, frm, to, system, unit_string_map, ignore_units, guage_pressures, atm) ==
    LET resolved == ResolveFrm(frm, unit_string_map)
        g == GuageCheck(resolved, guage_pressures)
        base == [resolved |-> resolved, guage |-> g.guage, frm |-> g.frm]
    IN  IF IsIgnored(g.frm, ignore_units)
        THEN base @@ IgnoredReturn(x, g.frm)
        ELSE IF ~PintDefined(g.frm)
        THEN base @@ UndefinedReturn(x, g.frm)
        ELSE base @@ ConvertedReturn(
                 ConvertQuantity(x, g.frm, to, system, g.guage, atm))

(***************************************************************************)
(* Strings, as read_data handles them.                                     *)
(***************************************************************************)
IsSpace(c) == c \in {" ", "\t"}

RECURSIVE LStrip(_)
LStrip(s) ==
    IF Len(s) > 0 /\ IsSpace(SubSeq(s, 1, 1)) THEN LStrip(SubSeq(s, 2, Len(s)))
    ELSE s

RECURSIVE RStrip(_)
RStrip(s) ==
    IF Len(s) > 0 /\ IsSpace(SubSeq(s, Len(s), Len(s)))
    THEN RStrip(SubSeq(s, 1, Len(s) - 1))
    ELSE s

\* str.strip(), which _strip (line 34) applies to a tag.
Strip(s) == RStrip(LStrip(s))

\* Whether pat occurs in s (df.columns.str.contains, line 227).
Contains(s, pat) ==
    \E i \in 1..(Len(s) - Len(pat) + 1) : SubSeq(s, i, i + Len(pat) - 1) = pat

LowerCase == "abcdefghijklmnopqrstuvwxyz"
UpperCase == "ABCDEFGHIJKLMNOPQRSTUVWXYZ"

UpperChar(c) ==
    IF \E i \in 1..Len(LowerCase) : SubSeq(LowerCase, i, i) = c
    THEN LET i == CHOOSE j \in 1..Len(LowerCase) : SubSeq(LowerCase, j, j) = c
         IN  SubSeq(UpperCase, i, i)
    ELSE c

RECURSIVE Upper(_)
Upper(s) ==
    IF Len(s) = 0 THEN s
    ELSE UpperChar(SubSeq(s, 1, 1)) \o Upper(SubSeq(s, 2, Len(s)))

\* A caller's rename_mapper applied to a tag: str.upper is the mapper the
\* model offers; None (no mapper) is never applied.
ApplyMapper(rename_mapper, tag) ==
    IF rename_mapper = "str.upper" THEN Upper(tag) ELSE tag

\* Python truthiness of an optional string argument.
Truthy(v) == v # None /\ v # ""

(***************************************************************************)
(* Calls of unit_convert: the arguments a caller may pass.                 *)
(***************************************************************************)
EmptyDict == [k \in {} |-> None]

XInputs == {Fix(10), Fix(11)}

FrmInputs ==
    {"PSIG", "psig", "PSI", "psi", "PCT", "percent", "m", "bogus", "barg",
     "inwg", "mwg", "gp"}

ToInputs == {None, "psi", "m", "bogus"}

SystemInputs == {None, "mks", "cgs"}

\* "PSI" is also a key of the alias table; "gp" maps to a key of it.
UnitStringMapInputs == {EmptyDict, "PSI" :> "bar" @@ "gp" :> "PSIG"}

IgnoreUnitsInputs == {{}, {"m", "psig"}}

\* "inwc" is no unit of the library; "m" is no pressure.
GuagePressuresInputs ==
    {EmptyDict, "barg" :> "bar" @@ "inwg" :> "inwc" @@ "mwg" :> "m"}

AtmInputs == {AtmDefault, Fix(2)}

UCIdle == [called |-> FALSE]

\* One call of unit_convert: uc records the arguments and the outcome.
UnitConvertCall ==
    /\ pc = "idle"
    /\ ~uc.called
    /\ \E x \in XInputs, frm \in FrmInputs, to \in ToInputs,
          system \in SystemInputs, unit_string_map \in UnitStringMapInputs,
          ignore_units \in IgnoreUnitsInputs,
          guage_pressures \in GuagePressuresInputs, atm \in AtmInputs :
            uc' = [called |-> TRUE,
                   args |-> [x |-> x, frm |-> frm, to |-> to, system |-> system,
                             unit_string_map |-> unit_string_map,
                             ignore_units |-> ignore_units,
                             guage_pressures |-> guage_pressures, atm |-> atm],
                   out |-> unit_convert(x, frm, to, system, unit_string_map,
                                        ignore_units, guage_pressures, atm)]
    /\ UNCHANGED <<pc, inp, df, metadata, order, iter, idx, warns, error>>

InitUC ==
    /\ uc = UCIdle
    /\ pc = "idle"
    /\ inp = None
    /\ df = <<>>
    /\ metadata = EmptyDict
    /\ order = <<>>
    /\ iter = <<>>
    /\ idx = 0
    /\ warns = <<>>
    /\ error = None

NextUC == UnitConvertCall

SpecUC == InitUC /\ [][NextUC]_vars
(***************************************************************************)
(* read_data.  inp holds the arguments and what the two files contain:     *)
(* columns are the headings of the data columns as pandas.read_csv gives   *)
(* them (pairwise distinct: read_csv renames repeated headings), lines the *)
(* rows of the metadata file.  A column of df carries its tag, its value   *)
(* (one row of data) and col, its position in the data file.               *)
(***************************************************************************)
SeqsUpTo(S, n) == UNION {[1..k -> S] : k \in 0..n}

Range(f) == {f[i] : i \in DOMAIN f}

RawHeadings == {"A", " A", "a ", "B", "Unnamed: 2"}

ColumnInputs ==
    {c \in SeqsUpTo(RawHeadings, MaxCols) :
        \A i, j \in DOMAIN c : i # j => c[i] # c[j]}

\* Rows of a metadata file: tag, reference string, description, units.
MetadataLines ==
    {<<"A", "m.x", "inlet", "PSIG">>,
     <<" A ", "m.y", "inlet", " bogus ">>,
     <<"a", " ", "level", "PCT">>,
     <<"Z", "m.bad", "spare", "m">>}

LineInputs == SeqsUpTo(MetadataLines, MaxRows)

Inputs ==
    {r \in [columns : ColumnInputs,
            csv_file_metadata : {None, "", "meta.csv"},
            lines : LineInputs,
            model : {None, "m"},
            rename_mapper : {None, "str.upper"},
            unit_system : {None, "mks"}] :
        Truthy(r.csv_file_metadata) \/ r.lines = <<>>}

\* The value in the data column at position k of the file.
ColumnValue(k) == Fix(10 * k)

\* eval(reference_string, {"m": model}) followed by pyo.Reference: the
\* model has components x and y and nothing else.
EvalSucceeds(reference_string) == reference_string \in {"m.x", "m.y"}

Reference(reference_string) == "Reference(" \o reference_string \o ")"

\* ColumnKey without the whitespace trimming of line 228.
ColumnKeyNoStrip(heading, rename_mapper) ==
    IF Truthy(rename_mapper) THEN ApplyMapper(rename_mapper, heading)
    ELSE heading

\* Lines 228-231: the tag of a data column.
ColumnKey(heading, rename_mapper) ==
    IF Truthy(rename_mapper) THEN ApplyMapper(rename_mapper, Strip(heading))
    ELSE Strip(heading)

\* MetadataKey without the renaming of lines 238-239.
MetadataKeyNoRename(rawtag, rename_mapper) == Strip(rawtag)

\* Lines 237-239: the key of a metadata row.
MetadataKey(rawtag, rename_mapper) ==
    IF Truthy(rename_mapper) THEN ApplyMapper(rename_mapper, Strip(rawtag))
    ELSE Strip(rawtag)

\* Lines 240-244: the record stored for one metadata row.
MetadataRecord(line) ==
    [reference_string |-> Strip(line[2]),
     reference |-> None,
     description |-> Strip(line[3]),
     units |-> Strip(line[4])]

\* Lines 236-244: the dictionary after the rows in lines, in order; a later
\* row replaces an earlier one with the same key, which keeps its place.
RECURSIVE ParseLines(_, _, _, _)
ParseLines(lines, rename_mapper, md, ord) ==
    IF lines = <<>> THEN [metadata |-> md, order |-> ord]
    ELSE LET tag == MetadataKey(Head(lines)[1], rename_mapper)
             rec == MetadataRecord(Head(lines))
         IN  ParseLines(Tail(lines), rename_mapper,
                        [t \in DOMAIN md \cup {tag} |->
                            IF t = tag THEN rec ELSE md[t]],
                        IF tag \in DOMAIN md THEN ord ELSE Append(ord, tag))

\* The tags of df's columns, in order (what "for tag in df" iterates).
Tags(frame) == [i \in DOMAIN frame |-> frame[i].tag]

\* Lines 225-231: read the data file, drop the unnamed columns, trim and
\* rename the headings.
ReadCsv ==
    /\ pc = "start"
    /\ LET kept == SelectSeq([k \in DOMAIN inp.columns |->
                                 [raw |-> inp.columns[k], col |-> k]],
                             LAMBDA c : ~Contains(c.raw, "Unnamed"))
       IN  df' = [i \in DOMAIN kept |->
                     [tag |-> ColumnKey(kept[i].raw, inp.rename_mapper),
                      value |-> ColumnValue(kept[i].col),
                      col |-> kept[i].col]]
    /\ pc' = "metadata"
    /\ UNCHANGED <<uc, inp, metadata, order, iter, idx, warns, error>>

\* Lines 232-244: read the metadata file when a path is given.
ReadMetadata ==
    /\ pc = "metadata"
    /\ LET parsed == IF Truthy(inp.csv_file_metadata)
                     THEN ParseLines(inp.lines, inp.rename_mapper, EmptyDict, <<>>)
                     ELSE [metadata |-> EmptyDict, order |-> <<>>]
       IN  /\ metadata' = parsed.metadata
           /\ order' = parsed.order
           /\ IF inp.model # None
              THEN pc' = "refs" /\ iter' = parsed.order /\ idx' = 1
              ELSE pc' = "drop" /\ iter' = Tags(df) /\ idx' = 1
    /\ UNCHANGED <<uc, inp, df, warns, error>>

\* ResolveReference with the exception of a failed resolution not caught.
ResolveReferenceUncaught ==
    /\ pc = "refs"
    /\ idx <= Len(iter)
    /\ LET tag == iter[idx]
           md == metadata[tag]
       IN  IF md.reference_string = ""
           THEN UNCHANGED <<metadata, error>> /\ pc' = pc /\ idx' = idx + 1
           ELSE IF EvalSucceeds(md.reference_string)
           THEN /\ metadata' = [metadata EXCEPT
                                   ![tag].reference = Reference(md.reference_string)]
                /\ UNCHANGED error /\ pc' = pc /\ idx' = idx + 1
           ELSE /\ error' = "NameError" /\ pc' = "raised"
                /\ UNCHANGED <<metadata, idx>>
    /\ UNCHANGED <<uc, inp, df, order, iter, warns>>

\* Lines 247-254: one turn of the loop over metadata.items().
ResolveReference ==
    /\ pc = "refs"
    /\ idx <= Len(iter)
    /\ LET tag == iter[idx]
           md == metadata[tag]
       IN  IF md.reference_string = ""
           THEN UNCHANGED <<metadata, warns>>
           ELSE IF EvalSucceeds(md.reference_string)
           THEN /\ metadata' = [metadata EXCEPT
                                   ![tag].reference = Reference(md.reference_string)]
                /\ UNCHANGED warns
           ELSE /\ warns' = Append(warns, <<"Tag refernce not found", md.reference_string>>)
                /\ UNCHANGED metadata
    /\ idx' = idx + 1
    /\ UNCHANGED <<uc, pc, inp, df, order, iter, error>>

\* The loop of line 247 is over: go on to line 256.
ReferencesDone ==
    /\ pc = "refs"
    /\ idx > Len(iter)
    /\ pc' = "drop"
    /\ iter' = Tags(df)
    /\ idx' = 1
    /\ UNCHANGED <<uc, inp, df, metadata, order, warns, error>>

\* DropColumn iterating over the live column list: the column after a
\* dropped one is skipped.
DropColumnSkipNext ==
    /\ pc = "drop"
    /\ idx <= Len(iter)
    /\ df' = IF iter[idx] \in DOMAIN metadata THEN df
             ELSE SelectSeq(df, LAMBDA c : c.tag # iter[idx])
    /\ iter' = Tags(df')
    /\ idx' = idx + 1
    /\ UNCHANGED <<uc, pc, inp, metadata, order, warns, error>>

\* Lines 256-258: one turn of the loop over the columns df had at line 256;
\* df.drop(tag) drops every column labelled tag and raises KeyError when no
\* column is.
DropColumn ==
    /\ pc = "drop"
    /\ idx <= Len(iter)
    /\ LET tag == iter[idx]
       IN  IF tag \in DOMAIN metadata
           THEN df' = df /\ idx' = idx + 1 /\ UNCHANGED <<pc, error>>
           ELSE IF \E i \in DOMAIN df : df[i].tag = tag
           THEN /\ df' = SelectSeq(df, LAMBDA c : c.tag # tag)
                /\ idx' = idx + 1
                /\ UNCHANGED <<pc, error>>
           ELSE /\ pc' = "raised"
                /\ error' = "KeyError"
                /\ UNCHANGED <<df, idx>>
    /\ UNCHANGED <<uc, inp, metadata, order, iter, warns>>

\* The loop of line 256 is over: line 262.
DropDone ==
    /\ pc = "drop"
    /\ idx > Len(iter)
    /\ IF Truthy(inp.unit_system)
       THEN pc' = "convert" /\ iter' = Tags(df) /\ idx' = 1
       ELSE pc' = "returned" /\ UNCHANGED <<iter, idx>>
    /\ UNCHANGED <<uc, inp, df, metadata, order, warns, error>>

\* The call of line 264 for the column(s) labelled tag, value by value.
Converted(tag, value) ==
    unit_convert(value, metadata[tag].units, None, inp.unit_system,
                 EmptyDict, {}, EmptyDict, AtmDefault)

\* ConvertColumn with the units of the metadata left as read.
ConvertColumnKeepUnits ==
    /\ pc = "convert"
    /\ idx <= Len(iter)
    /\ df' = [i \in DOMAIN df |->
                 IF df[i].tag = iter[idx]
                 THEN [df[i] EXCEPT !.value = Converted(iter[idx], df[i].value).value]
                 ELSE df[i]]
    /\ idx' = idx + 1
    /\ UNCHANGED <<uc, pc, inp, metadata, order, iter, warns, error>>

\* Lines 263-265: one turn of the loop over the columns left.  When two
\* columns carry the tag, df[tag] is a frame of both: pandas and pint either
\* convert it value by value or reject it, depending on their versions.
ConvertColumn ==
    /\ pc = "convert"
    /\ idx <= Len(iter)
    /\ LET tag == iter[idx]
           twice == Cardinality({i \in DOMAIN df : df[i].tag = tag}) > 1
           r == Converted(tag, ColumnValue(1))
       IN  \/ /\ df' = [i \in DOMAIN df |->
                           IF df[i].tag = tag
                           THEN [df[i] EXCEPT !.value = Converted(tag, df[i].value).value]
                           ELSE df[i]]
              /\ metadata' = [metadata EXCEPT ![tag].units = r.units]
              /\ warns' = IF r.warned
                          THEN Append(warns, <<"from unit is not defined", r.units>>)
                          ELSE warns
              /\ idx' = idx + 1
              /\ UNCHANGED <<pc, error>>
           \/ /\ twice
              /\ pc' = "raised"
              /\ error' = "ValueError"
              /\ UNCHANGED <<df, metadata, warns, idx>>
    /\ UNCHANGED <<uc, inp, order, iter>>

\* Line 267: return df, metadata.
Return ==
    /\ pc = "convert"
    /\ idx > Len(iter)
    /\ pc' = "returned"
    /\ UNCHANGED <<uc, inp, df, metadata, order, iter, idx, warns, error>>

Init ==
    /\ uc = UCIdle
    /\ pc = "start"
    /\ inp \in Inputs
    /\ df = <<>>
    /\ metadata = EmptyDict
    /\ order = <<>>
    /\ iter = <<>>
    /\ idx = 0
    /\ warns = <<>>
    /\ error = None

Next ==
    \/ ReadCsv
    \/ ReadMetadata
    \/ ResolveReference
    \/ ReferencesDone
    \/ DropColumn
    \/ DropDone
    \/ ConvertColumn
    \/ Return

Spec == Init /\ [][Next]_vars

(***************************************************************************)
(* Properties of unit_convert (checked under SpecUC).                      *)
(***************************************************************************)
\* C5: the source unit is resolved once, through the caller's
\* unit_string_map first, then through the alias table, else it is left as it
\* is; the gauge check (and all that follows) works on the resolved string,
\* which is not looked up a second time.
C5_ResolveOrder ==
    uc.called =>
        LET a == uc.args
            o == uc.out
        IN  /\ (a.frm \in DOMAIN a.unit_string_map
                    => o.resolved = a.unit_string_map[a.frm])
            /\ (a.frm \notin DOMAIN a.unit_string_map /\ a.frm \in DOMAIN unit_strings
                    => o.resolved = unit_strings[a.frm])
            /\ (a.frm \notin DOMAIN a.unit_string_map /\ a.frm \notin DOMAIN unit_strings
                    => o.resolved = a.frm)
            /\ o.guage = (o.resolved \in DOMAIN a.guage_pressures
                              \/ o.resolved \in DOMAIN builtin_guage_pressures)
            /\ (~o.guage => o.frm = o.resolved)

\* A key of both tables went through the caller's mapping, and a mapped
\* string that is an alias key ("PSIG") stayed as mapped.
C5_Witness ==
    /\ uc.called
    /\ uc.args.frm \in {"PSI", "gp"}
    /\ uc.args.unit_string_map # EmptyDict
    /\ uc.out.resolved \in {"bar", "PSIG"}

C7_NoOtherFailureMode ==
    uc.called =>
        LET a == uc.args
            o == uc.out
        IN  /\ (~IsIgnored(o.frm, a.ignore_units) /\ ~PintDefined(o.frm)
                    => o.warned /\ o.value = a.x /\ o.units = o.frm)
            /\ o.exc = None

\* C7 amended: an unrecognized source unit (also when reached through the
\* override, alias or gauge tables) gives a warning, no exception and
\* (x, string); an exception escapes only from the conversion of a source
\* unit the library parsed: an undefined or incompatible target, or the
\* offset added to a quantity that is no pressure.
C7_UndefinedSourceOnly ==
    uc.called =>
        LET a == uc.args
            o == uc.out
        IN  /\ (~(o.frm \in builtin_ignore_units \/ o.frm \in a.ignore_units)
                 /\ o.frm \notin DOMAIN PintRegistry
                    => o.exc = None /\ o.warned /\ o.value = a.x /\ o.units = o.frm)
            /\ (o.exc # None
                    => /\ o.frm \in DOMAIN PintRegistry
                       /\ \/ a.to # None /\ a.to \notin DOMAIN PintRegistry
                          \/ a.to # None /\ PintRegistry[a.to].dim # PintRegistry[o.frm].dim
                          \/ o.guage /\ PintRegistry[o.frm].dim # "pressure")

\* An undefined unit reached through the gauge table, with an undefined target.
C7_Witness ==
    /\ uc.called
    /\ uc.args.frm = "inwg"
    /\ uc.out.guage
    /\ uc.out.frm = "inwc"
    /\ uc.args.to = "bogus"
    /\ uc.out.warned

\* C8 as stated: the gauge result is the absolute conversion plus the offset,
\* and converting 10 "psig" equals converting 11 "psi".
C8_TenPsigIsElevenPsi ==
    uc.called =>
        LET a == uc.args
            o == uc.out
        IN  (a.frm = "psig" /\ a.x = Fix(10) /\ a.atm = AtmDefault /\ o.exc = None
             /\ o.path = "converted")
                => o.value = PintConvert(Fix(11), "psi", a.to, a.system).magnitude

\* C8 amended: for a gauge unit whose absolute unit is converted and whose
\* call returns, the value is the conversion of x in the absolute unit plus
\* atm atmospheres expressed in the result unit, with the units of the
\* absolute conversion; 10 "psig" is 10 "psi" plus one atmosphere, which is
\* not 11 "psi".
C8_GaugeIsAbsolutePlusAtm ==
    uc.called =>
        LET a == uc.args
            o == uc.out
            abs == PintConvert(a.x, o.frm, a.to, a.system)
        IN  (o.guage /\ o.path = "converted" /\ o.exc = None)
                => /\ abs.exc = None
                   /\ o.value = abs.magnitude + PintMagnitude(a.atm, "atm", abs.units)
                   /\ o.units = PintRegistry[abs.units].name
                   /\ (a.frm = "psig" /\ a.x = Fix(10) /\ a.atm = AtmDefault
                            => o.value # PintConvert(Fix(11), "psi", a.to, a.system).magnitude)

\* 10 psig to the default base units: 68948.00 + 101325.00 pascal.
C8_Witness ==
    /\ uc.called
    /\ uc.args.frm = "psig"
    /\ uc.args.x = Fix(10)
    /\ uc.args.atm = AtmDefault
    /\ uc.args.to = None
    /\ uc.args.system = None
    /\ uc.out.value = 17027300
    /\ uc.out.units = "kilogram / meter / second ** 2"
(***************************************************************************)
(* Properties of read_data (checked under Spec).                           *)
(***************************************************************************)
\* The key read_data is said to compute for a raw heading or raw metadata
\* tag: trimmed first, then renamed when a mapper is supplied.
Normalised(raw) ==
    IF inp.rename_mapper = None THEN Strip(raw)
    ELSE ApplyMapper(inp.rename_mapper, Strip(raw))

\* The positions of the data columns that are no artifact of an empty heading.
DataColumns == {k \in DOMAIN inp.columns : ~Contains(inp.columns[k], "Unnamed")}

\* The rows of the metadata file that is read (none without a path).
MetadataRows ==
    IF inp.csv_file_metadata = None \/ inp.csv_file_metadata = "" THEN {}
    ELSE DOMAIN inp.lines

\* The last row of the metadata file whose key is tag.
LastRow(tag) ==
    inp.lines[CHOOSE n \in MetadataRows :
                 /\ Normalised(inp.lines[n][1]) = tag
                 /\ \A m \in MetadataRows :
                        Normalised(inp.lines[m][1]) = tag => m <= n]

\* C1: whenever read_data returns, every tag that is a column of the returned
\* table is a key of the returned metadata (the converse is not required).
C1_ColumnsHaveMetadata ==
    pc = "returned" => \A i \in DOMAIN df : df[i].tag \in DOMAIN metadata

\* A returned table with a column, and metadata for a tag that is no column.
C1_Witness ==
    /\ pc = "returned"
    /\ df # <<>>
    /\ \E t \in DOMAIN metadata : \A i \in DOMAIN df : df[i].tag # t

\* C2: the columns of the returned table are exactly the data-file tags that
\* have an entry in the metadata; without a metadata file path the metadata
\* is empty and the table has no columns.
C2_ColumnsAreTagsWithMetadata ==
    pc = "returned" =>
        LET dataTags == {Normalised(inp.columns[k]) : k \in DataColumns}
            metaKeys == {Normalised(inp.lines[n][1]) : n \in MetadataRows}
        IN  /\ DOMAIN metadata = metaKeys
            /\ Range(Tags(df)) = dataTags \cap metaKeys
            /\ (inp.csv_file_metadata \in {None, ""}
                    => metadata = EmptyDict /\ df = <<>>)

\* Three columns with three tags, metadata for two of them: exactly those
\* two columns are returned.
C2_Witness ==
    /\ pc = "returned"
    /\ Cardinality({Normalised(inp.columns[k]) : k \in DataColumns}) = 3
    /\ Len(df) = 2
    /\ df[1].tag # df[2].tag
    /\ \A t \in DOMAIN metadata : \E i \in DOMAIN df : df[i].tag = t

\* C3: a data column and a metadata row get their keys by the same
\* normalisation (trim, then rename): the column with raw heading d is kept,
\* under the key rename(strip(d)) and with the entry of a row t, exactly when
\* rename(strip(d)) = rename(strip(t)) for a row t of the metadata file.
C3_SameNormalisation ==
    pc = "returned" =>
        \A k \in DataColumns :
            LET d == inp.columns[k]
                matches == {n \in MetadataRows :
                               Normalised(d) = Normalised(inp.lines[n][1])}
            IN  /\ (\E i \in DOMAIN df : df[i].col = k) <=> (matches # {})
                /\ \A i \in DOMAIN df :
                       df[i].col = k
                           => /\ df[i].tag = Normalised(d)
                              /\ \E n \in matches :
                                     metadata[df[i].tag].description
                                         = Strip(inp.lines[n][3])

\* The heading "a " matched, after trimming and renaming, to a row " A ".
C3_Witness ==
    /\ pc = "returned"
    /\ inp.rename_mapper = "str.upper"
    /\ \A n \in DOMAIN inp.lines : inp.lines[n][1] = " A "
    /\ \E i \in DOMAIN df : inp.columns[df[i].col] = "a "

\* C4: with a unit_system, the returned values of every surviving column and
\* the returned units of its tag are the pair unit_convert gives for the
\* column's values, the tag's units as read and system=unit_system; without
\* one, values and units are returned as read.
C4_BulkConversion ==
    pc = "returned" =>
        \A i \in DOMAIN df :
            LET tag == df[i].tag
                read == Strip(LastRow(tag)[4])
                r == unit_convert(ColumnValue(df[i].col), read, None,
                                  inp.unit_system, EmptyDict, {}, EmptyDict,
                                  AtmDefault)
            IN  IF inp.unit_system = None
                THEN df[i].value = ColumnValue(df[i].col)
                     /\ metadata[tag].units = read
                ELSE df[i].value = r.value /\ metadata[tag].units = r.units

\* A column in PSIG returned in base units, gauge offset included.
C4_Witness ==
    /\ pc = "returned"
    /\ inp.unit_system = "mks"
    /\ \E i \in DOMAIN df :
           /\ Strip(LastRow(df[i].tag)[4]) = "PSIG"
           /\ metadata[df[i].tag].units = "kilogram / meter / second ** 2"
           /\ df[i].value > ColumnValue(df[i].col)

\* C9: a reference that fails to resolve is isolated.  Once the loop over
\* the metadata is over, a tag's reference is set exactly when a model was
\* supplied, its reference_string is not empty and resolves; each failing
\* reference_string left a warning; and no exception of the resolution ends
\* the load.
C9_ReferenceFailureIsolated ==
    /\ \A t \in DOMAIN metadata :
           metadata[t].reference # None
               => /\ inp.model # None
                  /\ metadata[t].reference_string # ""
                  /\ EvalSucceeds(metadata[t].reference_string)
    /\ pc \in {"drop", "convert", "returned", "raised"}
           => /\ \A t \in DOMAIN metadata :
                     LET md == metadata[t]
                     IN  (inp.model # None /\ md.reference_string # "")
                             => IF EvalSucceeds(md.reference_string)
                                THEN md.reference = Reference(md.reference_string)
                                ELSE /\ md.reference = None
                                     /\ \E w \in DOMAIN warns :
                                            warns[w] = <<"Tag refernce not found",
                                                         md.reference_string>>
              /\ error \in {None, "KeyError", "ValueError"}

\* The load returned; a failing tag comes first in the metadata and a tag
\* after it is resolved.
C9_Witness ==
    /\ pc = "returned"
    /\ Len(order) = 2
    /\ metadata[order[1]].reference_string = "m.bad"
    /\ metadata[order[1]].reference = None
    /\ metadata[order[2]].reference = Reference("m.x")

\* C10: no two columns of the returned table carry the same tag, and
\* read_data completes normally whatever the headings trim or rename to.
C10_UniqueTags ==
    /\ pc = "returned"
           => \A i, j \in DOMAIN df : i # j => df[i].tag # df[j].tag
    /\ pc # "raised"
====
